---- MODULE Spec2Model ----
(***************************************************************************)
(* A model of aiops_triage.py: the log line parser, the incident key       *)
(* deriver, the incident grouper, the runbook retriever, the prompt        *)
(* builder, the report extractor and the batch driver main().              *)
(*                                                                         *)
(* Text is modelled by TLA+ strings, character by character: the regular   *)
(* expressions of the source are modelled by the scans they perform.       *)
(* Characters are those of ASCII: the whitespace class is space, tab and   *)
(* line break, the digit class is 0-9, the word class is [A-Za-z0-9_].     *)
(***************************************************************************)
EXTENDS Integers, Sequences, FiniteSets, TLC

VARIABLES
    fileState,  \* main: what open(LOG_PATH) finds: "ok", "missing", "unreadable"
    lines,      \* main: the lines of the log file, in file order
    pc,         \* main: the position of the driver
    entries,    \* main: the list load_logs returned
    reported,   \* load_logs: whether "Error: ... not found." was printed
    groups,     \* main: the dict group_incidents returned, in insertion order
    idx,        \* main: the loop's position in groups.items()
    calls,      \* the generator's calls (prompt, generated text), in call order
    emitted,    \* what main printed per incident, in print order
    arg,        \* the input of a function applied on its own
    res         \* its result

vars == <<fileState, lines, pc, entries, reported, groups, idx, calls,
          emitted, arg, res>>

Null == "<null>"

------------------------------------------------------------------------------
(* Characters and strings *)

LowerLetters == "abcdefghijklmnopqrstuvwxyz"
UpperLetters == "ABCDEFGHIJKLMNOPQRSTUVWXYZ"
Digits == "0123456789"

CharsOf(s) == { SubSeq(s, i, i) : i \in 1..Len(s) }

SpaceChars == {" ", "\t", "\n"}
DigitChars == CharsOf(Digits)
WordChars == CharsOf(LowerLetters) \cup CharsOf(UpperLetters) \cup DigitChars \cup {"_"}

\* the character of s at position i ("" outside s)
Ch(s, i) == IF 1 <= i /\ i <= Len(s) THEN SubSeq(s, i, i) ELSE ""

IsSpace(c) == c \in SpaceChars
IsDigit(c) == c \in DigitChars
IsWord(c) == c \in WordChars

\* str.lower() of one character
LowerOf == [c \in CharsOf(UpperLetters) |->
              Ch(LowerLetters, CHOOSE k \in 1..Len(UpperLetters) : Ch(UpperLetters, k) = c)]

LowerChar(c) == IF c \in DOMAIN LowerOf THEN LowerOf[c] ELSE c

RECURSIVE LowerFrom(_, _)
LowerFrom(s, i) ==
    IF i > Len(s) THEN "" ELSE LowerChar(Ch(s, i)) \o LowerFrom(s, i + 1)

\* str.lower()
Lower(s) == LowerFrom(s, 1)

\* the first position >= i of s that holds no whitespace (Len(s)+1 if none): \s*
RECURSIVE SkipSpace(_, _)
SkipSpace(s, i) ==
    IF i <= Len(s) /\ IsSpace(Ch(s, i)) THEN SkipSpace(s, i + 1) ELSE i

\* the first position >= i of s that holds whitespace (Len(s)+1 if none): \S*
RECURSIVE SkipNonSpace(_, _)
SkipNonSpace(s, i) ==
    IF i <= Len(s) /\ ~IsSpace(Ch(s, i)) THEN SkipNonSpace(s, i + 1) ELSE i

\* the first position >= i of s that holds no digit: \d*
RECURSIVE SkipDigits(_, _)
SkipDigits(s, i) ==
    IF i <= Len(s) /\ IsDigit(Ch(s, i)) THEN SkipDigits(s, i + 1) ELSE i

\* the first position >= i of s that holds no word character: \w*
RECURSIVE SkipWord(_, _)
SkipWord(s, i) ==
    IF i <= Len(s) /\ IsWord(Ch(s, i)) THEN SkipWord(s, i + 1) ELSE i

\* the last position <= j of s that holds no whitespace (0 if none)
RECURSIVE BackSpace(_, _)
BackSpace(s, j) ==
    IF j >= 1 /\ IsSpace(Ch(s, j)) THEN BackSpace(s, j - 1) ELSE j

\* str.strip()
Strip(s) == SubSeq(s, SkipSpace(s, 1), BackSpace(s, Len(s)))

\* whether p occurs in s at position i
MatchAt(s, i, p) == i >= 1 /\ i + Len(p) - 1 <= Len(s) /\ SubSeq(s, i, i + Len(p) - 1) = p

\* the first position >= i at which p occurs in s (0 if none): str.find
RECURSIVE Find(_, _, _)
Find(s, p, i) ==
    IF i + Len(p) - 1 > Len(s) THEN 0
    ELSE IF MatchAt(s, i, p) THEN i
    ELSE Find(s, p, i + 1)

\* Python's `p in s`
Contains(s, p) == Find(s, p, 1) # 0

\* s[i:] of the text from position i on
From(s, i) == SubSeq(s, i, Len(s))

\* str.replace(old, new): the occurrences of old, left to right, not overlapping
RECURSIVE Replace(_, _, _)
Replace(s, old, new) ==
    LET i == Find(s, old, 1)
    IN  IF i = 0 THEN s
        ELSE SubSeq(s, 1, i - 1) \o new \o Replace(From(s, i + Len(old)), old, new)

\* str.split(sep): the pieces between the occurrences of sep, empty ones kept
RECURSIVE SplitAll(_, _)
SplitAll(s, sep) ==
    LET i == Find(s, sep, 1)
    IN  IF i = 0 THEN <<s>>
        ELSE <<SubSeq(s, 1, i - 1)>> \o SplitAll(From(s, i + Len(sep)), sep)

------------------------------------------------------------------------------
(* LogEntry and parse_log_line *)

\* the None that parse_log_line returns for a line it rejects
None == [none |-> TRUE]

LogEntry(timestamp, service, level, message) ==
    [timestamp |-> timestamp, service |-> service, level |-> level,
     message |-> message]

\* re.match(r"^(\S+)\s+\[([^\]]+)\]\s+(\w+):\s+(.*)$", line) on the stripped line.
\* Each class run is followed by a character outside the class, so the greedy
\* run is the only one that can match.
ParseLogLine(line) ==
    LET l  == Strip(line)
        n  == Len(l)
        t2 == SkipNonSpace(l, 1)          \* after (\S+)
        b  == SkipSpace(l, t2)            \* after \s+, at "["
        rb == Find(l, "]", b + 1)         \* the "]" that ends [^\]]+
        v  == SkipSpace(l, rb + 1)        \* after \s+, at (\w+)
        c  == SkipWord(l, v)              \* after (\w+), at ":"
        m  == SkipSpace(l, c + 1)         \* after \s+, at (.*)
    IN  IF l = "" THEN None
        ELSE IF t2 = 1 \/ b = t2 \/ Ch(l, b) # "[" THEN None
        ELSE IF rb = 0 \/ rb = b + 1 THEN None
        ELSE IF v = rb + 1 \/ c = v \/ Ch(l, c) # ":" THEN None
        ELSE IF m = c + 1 \/ Contains(From(l, m), "\n") THEN None
        ELSE LogEntry(SubSeq(l, 1, t2 - 1), SubSeq(l, b + 1, rb - 1),
                      SubSeq(l, v, c - 1), From(l, m))

------------------------------------------------------------------------------
(* derive_incident_key *)

\* re.sub(r"\d+", "<NUM>", s)
RECURSIVE SubDigitsFrom(_, _)
SubDigitsFrom(s, i) ==
    IF i > Len(s) THEN ""
    ELSE IF IsDigit(Ch(s, i)) THEN "<NUM>" \o SubDigitsFrom(s, SkipDigits(s, i))
    ELSE Ch(s, i) \o SubDigitsFrom(s, i + 1)

\* a mutant of SubDigits: re.sub(r"\d", "<NUM>", s), one mark per digit
RECURSIVE SubEachDigit(_)
SubEachDigit(s) ==
    IF s = "" THEN ""
    ELSE IF IsDigit(Ch(s, 1)) THEN "<NUM>" \o SubEachDigit(From(s, 2))
    ELSE Ch(s, 1) \o SubEachDigit(From(s, 2))

SubDigits(s) == SubDigitsFrom(s, 1)

\* re.sub(r"\s+", " ", s)
RECURSIVE SubSpacesFrom(_, _)
SubSpacesFrom(s, i) ==
    IF i > Len(s) THEN ""
    ELSE IF IsSpace(Ch(s, i)) THEN " " \o SubSpacesFrom(s, SkipSpace(s, i))
    ELSE Ch(s, i) \o SubSpacesFrom(s, i + 1)

SubSpaces(s) == SubSpacesFrom(s, 1)

\* normalized_msg of derive_incident_key
NormalizeMessage(message) == Strip(SubSpaces(SubDigits(Lower(message))))

DeriveIncidentKey(entry) == entry.service \o "::" \o NormalizeMessage(entry.message)

------------------------------------------------------------------------------
(* group_incidents: a dict is the sequence of its items in insertion order *)

RetainedLevels == {"ERROR", "WARN"}

\* the position of key k among the items of dict d (0 if absent)
KeyIndex(d, k) ==
    IF \E j \in 1..Len(d) : d[j].key = k
    THEN CHOOSE j \in 1..Len(d) : d[j].key = k
    ELSE 0

\* groups[key].append(e) on a defaultdict(list)
DictAppend(d, k, e) ==
    LET j == KeyIndex(d, k)
    IN  IF j = 0 THEN Append(d, [key |-> k, val |-> <<e>>])
        ELSE [d EXCEPT ![j].val = Append(@, e)]

\* a mutant of Retained: the level compared without regard to letter case
RetainedAnyCase(e) == Lower(e.level) \in { Lower(l) : l \in RetainedLevels }

\* whether the loop of group_incidents keeps entry e
Retained(e) == e.level \in RetainedLevels

RECURSIVE GroupLoop(_, _, _)
GroupLoop(es, i, d) ==
    IF i > Len(es) THEN d
    ELSE IF ~Retained(es[i]) THEN GroupLoop(es, i + 1, d)
    ELSE GroupLoop(es, i + 1, DictAppend(d, DeriveIncidentKey(es[i]), es[i]))

GroupIncidents(es) == GroupLoop(es, 1, <<>>)

------------------------------------------------------------------------------
(* KNOWLEDGE_BASE and retrieve_runbook *)

KNOWLEDGE_BASE == <<
    [keyword |-> "database connection timeout",
     runbook |-> "RUNBOOK-DB-001: Check RDS CPU utilization. If > 80%, scale up read replicas. If normal, check VPC security groups."],
    [keyword |-> "payment gateway timeout",
     runbook |-> "RUNBOOK-PAY-99: Verify Stripe API status page. If Stripe is up, check internal NAT gateway latency."],
    [keyword |-> "token signature validation",
     runbook |-> "RUNBOOK-AUTH-55: Rotate JWT public keys. Check if client clock skew > 5 minutes."],
    [keyword |-> "slow response",
     runbook |-> "RUNBOOK-PERF-12: Check Redis cache hit rate. If < 50%, flush cache or increase memory."] >>

NoRunbook == "No specific runbook found. Follow general triage SOP."

\* a mutant of ScanOrder: the knowledge base visited last entry first
ScanReversed == [i \in 1..Len(KNOWLEDGE_BASE) |-> Len(KNOWLEDGE_BASE) + 1 - i]

\* the order in which retrieve_runbook visits KNOWLEDGE_BASE.items()
ScanOrder == [i \in 1..Len(KNOWLEDGE_BASE) |-> i]

RECURSIVE RetrieveFrom(_, _)
RetrieveFrom(pattern, i) ==
    IF i > Len(ScanOrder) THEN NoRunbook
    ELSE IF Contains(pattern, KNOWLEDGE_BASE[ScanOrder[i]].keyword)
         THEN KNOWLEDGE_BASE[ScanOrder[i]].runbook
    ELSE RetrieveFrom(pattern, i + 1)

RetrieveRunbook(pattern) == RetrieveFrom(pattern, 1)

------------------------------------------------------------------------------
(* build_summary_prompt *)

\* a mutant of SplitKey: incident_key.rsplit("::", 1), split at the last "::"
RECURSIVE FindLast(_, _, _)
FindLast(s, p, i) ==
    IF i < 1 THEN 0 ELSE IF MatchAt(s, i, p) THEN i ELSE FindLast(s, p, i - 1)

SplitKeyLast(incident_key) ==
    LET i == FindLast(incident_key, "::", Len(incident_key))
    IN  [service |-> SubSeq(incident_key, 1, i - 1),
         pattern |-> From(incident_key, i + 2)]

\* incident_key.split("::", 1)
SplitKey(incident_key) ==
    LET i == Find(incident_key, "::", 1)
    IN  [service |-> SubSeq(incident_key, 1, i - 1),
         pattern |-> From(incident_key, i + 2)]

RecentLogs == 5

\* entries[-5:]
Recent(es) ==
    IF Len(es) <= RecentLogs THEN es ELSE SubSeq(es, Len(es) - RecentLogs + 1, Len(es))

RenderEntry(e) == e.timestamp \o " [" \o e.level \o "] " \o e.message

\* "\n".join(...)
RECURSIVE JoinLines(_, _)
JoinLines(es, i) ==
    IF i > Len(es) THEN ""
    ELSE IF i = Len(es) THEN RenderEntry(es[i])
    ELSE RenderEntry(es[i]) \o "\n" \o JoinLines(es, i + 1)

PromptHead ==
    "Given the logs, output a triage report.\n\n[EXAMPLE]\n"
    \o "Input Logs: 2024-01-01 [orders] ERROR connection timed out\n"
    \o "Runbook context: Check DB.\nReport:\n"
    \o "Summary: Database connection failing intermittently.\n"
    \o "Severity: P2\n"
    \o "Root Cause: High database load or network partition.\n"
    \o "Action Items: Check RDS CPU, Investigate VPC logs\n\n"
    \o "[TARGET]\nInput Logs:\n"

BuildSummaryPrompt(incident_key, es) ==
    LET pattern == SplitKey(incident_key).pattern
        logs_text == JoinLines(Recent(es), 1)
        runbook_context == RetrieveRunbook(pattern)
    IN  Strip("\n" \o PromptHead \o logs_text \o "\nRunbook context: "
              \o runbook_context \o "\nReport:\n")

------------------------------------------------------------------------------
(* parse_llm_output_to_json *)

\* a mutant of DefaultReport: the severity defaulted like the text fields
DefaultAllNA ==
    [summary |-> "N/A", severity |-> "N/A", root_cause |-> "N/A",
     action_items |-> <<>>]

DefaultReport ==
    [summary |-> "N/A", severity |-> "P3", root_cause |-> "N/A",
     action_items |-> <<>>]

SummaryLabel == "Summary:"
SeverityLabel == "Severity:"
RootCauseLabel == "Root Cause:"
ActionItemsLabel == "Action Items:"

NoMatch == [matched |-> FALSE, group |-> ""]
Match(g) == [matched |-> TRUE, group |-> g]

\* the first position >= i at which label occurs in text under re.IGNORECASE
FindLabel(text, label, i) == Find(Lower(text), Lower(label), i)

\* "$" without re.MULTILINE: the end of the text, or just before a final line break
AtEnd(text, j) == j = Len(text) + 1 \/ (j = Len(text) /\ Ch(text, j) = "\n")

\* whether label occurs in text at position k under re.IGNORECASE
MatchLabelAt(text, k, label) ==
    /\ k >= 1
    /\ k + Len(label) - 1 <= Len(text)
    /\ LowerChar(Ch(text, k)) = LowerChar(Ch(label, 1))
    /\ Lower(SubSeq(text, k, k + Len(label) - 1)) = Lower(label)

\* the lookahead (?=\s*<label>|$) at position j
Lookahead(text, j, label) ==
    \/ MatchLabelAt(text, SkipSpace(text, j), label)
    \/ AtEnd(text, j)

\* a mutant of LazyEnd: the greedy (.*), which runs to the end of the text
GreedyEnd(text, j, label) == Len(text) + 1

\* where the lazy (.*?) that starts at position j ends: the first position
\* from j on at which the lookahead holds
RECURSIVE LazyEnd(_, _, _)
LazyEnd(text, j, label) ==
    IF j > Len(text) \/ Lookahead(text, j, label) THEN j
    ELSE LazyEnd(text, j + 1, label)

\* re.search(r"<label>\s*(.*?)(?=\s*<next>|$)", text, re.IGNORECASE | re.DOTALL)
SearchField(text, label, next) ==
    LET i == FindLabel(text, label, 1)
        start == SkipSpace(text, i + Len(label))
    IN  IF i = 0 THEN NoMatch
        ELSE Match(SubSeq(text, start, LazyEnd(text, start, next) - 1))

\* whether (P\d)(?=\s*Root Cause:|$) matches at position k under re.IGNORECASE
SeverityAt(text, k) ==
    /\ Lower(Ch(text, k)) = "p"
    /\ IsDigit(Ch(text, k + 1))
    /\ Lookahead(text, k + 2, RootCauseLabel)

\* re.search(r"Severity:\s*(P\d)(?=\s*Root Cause:|$)", text, re.IGNORECASE):
\* the first occurrence of the label, from position i on, that the rest follows
RECURSIVE SearchSeverity(_, _)
SearchSeverity(text, i) ==
    LET at == FindLabel(text, SeverityLabel, i)
        k == SkipSpace(text, at + Len(SeverityLabel))
    IN  IF at = 0 THEN NoMatch
        ELSE IF SeverityAt(text, k) THEN Match(SubSeq(text, k, k + 1))
        ELSE SearchSeverity(text, at + 1)

\* re.search(r"Action Items:\s*(.*)", text, re.IGNORECASE | re.DOTALL)
SearchActions(text) ==
    LET i == FindLabel(text, ActionItemsLabel, 1)
    IN  IF i = 0 THEN NoMatch
        ELSE Match(From(text, SkipSpace(text, i + Len(ActionItemsLabel))))

TargetMarker == "[TARGET]"

\* raw_actions.replace("[TARGET]", "")
RemoveMarker(raw) == Replace(raw, TargetMarker, "")

\* [a.strip() for a in pieces if a.strip()]
RECURSIVE StripNonEmpty(_, _)
StripNonEmpty(pieces, i) ==
    IF i > Len(pieces) THEN <<>>
    ELSE IF Strip(pieces[i]) = "" THEN StripNonEmpty(pieces, i + 1)
    ELSE <<Strip(pieces[i])>> \o StripNonEmpty(pieces, i + 1)

\* the action_items built from group(1) of actions_match
ActionItems(group) ==
    LET raw_actions == Strip(RemoveMarker(Strip(group)))
    IN  StripNonEmpty(SplitAll(raw_actions, ","), 1)

ParseLlmOutputToJson(text) ==
    LET summary_match == SearchField(text, SummaryLabel, SeverityLabel)
        severity_match == SearchSeverity(text, 1)
        root_cause_match == SearchField(text, RootCauseLabel, ActionItemsLabel)
        actions_match == SearchActions(text)
    IN  [summary |-> IF summary_match.matched THEN Strip(summary_match.group)
                     ELSE DefaultReport.summary,
         severity |-> IF severity_match.matched THEN Strip(severity_match.group)
                      ELSE DefaultReport.severity,
         root_cause |-> IF root_cause_match.matched THEN Strip(root_cause_match.group)
                        ELSE DefaultReport.root_cause,
         action_items |-> IF actions_match.matched THEN ActionItems(actions_match.group)
                          ELSE DefaultReport.action_items]

------------------------------------------------------------------------------
(* load_logs and main *)

\* the loop of load_logs over the lines of the file
RECURSIVE LoadLoop(_, _)
LoadLoop(ls, i) ==
    IF i > Len(ls) THEN <<>>
    ELSE LET entry == ParseLogLine(ls[i])
         IN  IF entry # None THEN <<entry>> \o LoadLoop(ls, i + 1)
             ELSE LoadLoop(ls, i + 1)

\* a mutant of ItemsOrder: the items visited last inserted first
ItemsReversed(d) == [i \in 1..Len(d) |-> Len(d) + 1 - i]

\* the order in which main visits groups.items()
ItemsOrder(d) == [i \in 1..Len(d) |-> i]

MaxLines == 3

\* the lines a log file is made of
LogLines ==
    { "t1 [db] ERROR: timeout after 30s",
      "t2 [db] ERROR: Timeout  after 45s\n",
      "t3 [api] WARN: slow response in 900ms",
      "t4 [api] INFO: started",
      "t5 [db] warn: timeout after 7s",
      "not a log line" }

\* the texts the generator answers with
GenTexts ==
    { "Summary: DB down Severity: P1 Root Cause: overload Action Items: restart, scale",
      " no report here\n" }

SeqsUpTo(S, n) == UNION { [1..k -> S] : k \in 0..n }

Init ==
    /\ fileState \in {"ok", "missing", "unreadable"}
    /\ lines \in IF fileState = "ok" THEN SeqsUpTo(LogLines, MaxLines) ELSE {<<>>}
    /\ pc = "start"
    /\ entries = <<>>
    /\ reported = FALSE
    /\ groups = <<>>
    /\ idx = 0
    /\ calls = <<>>
    /\ emitted = <<>>
    /\ arg = Null
    /\ res = Null

\* main, lines 140-143: load_logs(LOG_PATH), then `if not entries: return`.
\* open() raises FileNotFoundError for a missing file, which load_logs catches,
\* and another OSError for a file it cannot read, which nothing catches.
LoadLogs ==
    /\ pc = "start"
    /\ \/ /\ fileState = "ok"
          /\ entries' = LoadLoop(lines, 1)
          /\ pc' = IF entries' = <<>> THEN "done" ELSE "loaded"
          /\ UNCHANGED reported
       \/ /\ fileState = "missing"
          /\ reported' = TRUE
          /\ pc' = "done"
          /\ UNCHANGED entries
       \/ /\ fileState = "unreadable"
          /\ pc' = "crashed"
          /\ UNCHANGED <<entries, reported>>
    /\ UNCHANGED <<fileState, lines, groups, idx, calls, emitted, arg, res>>

\* main, lines 145-157: group_incidents(entries), the generator is loaded
Group ==
    /\ pc = "loaded"
    /\ groups' = GroupIncidents(entries)
    /\ idx' = 1
    /\ pc' = "loop"
    /\ UNCHANGED <<fileState, lines, entries, reported, calls, emitted, arg, res>>

\* main, lines 159-173: one turn of the loop over groups.items()
Triage ==
    /\ pc = "loop"
    /\ idx <= Len(groups)
    /\ LET item == groups[ItemsOrder(groups)[idx]]
           prompt == BuildSummaryPrompt(item.key, item.val)
       IN  \E text \in GenTexts :
             LET result == Strip(text)
             IN  /\ calls' = Append(calls, [prompt |-> prompt, generated_text |-> text])
                 /\ emitted' = Append(emitted,
                        [i |-> idx, service |-> item.val[1].service,
                         count |-> Len(item.val),
                         report |-> ParseLlmOutputToJson(result)])
    /\ idx' = idx + 1
    /\ UNCHANGED <<fileState, lines, pc, entries, reported, groups, arg, res>>

\* main: the loop over groups.items() is exhausted
Finish ==
    /\ pc = "loop"
    /\ idx > Len(groups)
    /\ pc' = "done"
    /\ UNCHANGED <<fileState, lines, entries, reported, groups, idx, calls, emitted,
                   arg, res>>

Next == LoadLogs \/ Group \/ Triage \/ Finish

Spec == Init /\ [][Next]_vars

------------------------------------------------------------------------------
(* The functions applied on their own: arg is drawn by the initial state,  *)
(* one action applies the function and leaves its result in res.           *)

Idle ==
    /\ fileState = "none"
    /\ lines = <<>>
    /\ entries = <<>>
    /\ reported = FALSE
    /\ groups = <<>>
    /\ idx = 0
    /\ calls = <<>>
    /\ emitted = <<>>

Return(result) ==
    /\ pc = "call"
    /\ pc' = "return"
    /\ res' = result
    /\ UNCHANGED <<fileState, lines, entries, reported, groups, idx, calls, emitted, arg>>

\* the strings of at most n characters of the set chars
RECURSIVE StringsUpTo(_, _)
StringsUpTo(chars, n) ==
    IF n = 0 THEN {""}
    ELSE LET shorter == StringsUpTo(chars, n - 1)
         IN  shorter \cup { s \o c : s \in shorter, c \in chars }

\* the concatenation of the strings of a sequence
RECURSIVE Concat(_, _)
Concat(ss, i) == IF i > Len(ss) THEN "" ELSE ss[i] \o Concat(ss, i + 1)

\* ---- derive_incident_key on two records of one service, then group_incidents.
\* The second message starts as the first; its digit runs and whitespace runs are
\* then rewritten, one character at a time, each run staying a non-empty run.

MaxMsgLen == 3

MsgChars == {"A", "b", "1", "2", " ", "\t"}

KeyInit ==
    /\ Idle
    /\ pc = "call"
    /\ \E m \in StringsUpTo(MsgChars, MaxMsgLen) : arg = [service |-> "db", m1 |-> m, m2 |-> m]
    /\ res = Null

\* whether c and d are both digits or both whitespace
SameRunClass(c, d) == (IsDigit(c) /\ IsDigit(d)) \/ (IsSpace(c) /\ IsSpace(d))

SetSecond(m) ==
    /\ pc = "call"
    /\ arg' = [arg EXCEPT !.m2 = m]
    /\ UNCHANGED <<fileState, lines, pc, entries, reported, groups, idx, calls, emitted, res>>

\* another digit, or another whitespace character, in the place of one
ReplaceInRun ==
    \E i \in 1..Len(arg.m2), c \in MsgChars :
        /\ SameRunClass(Ch(arg.m2, i), c)
        /\ SetSecond(SubSeq(arg.m2, 1, i - 1) \o c \o From(arg.m2, i + 1))

\* a run made longer by one character
GrowRun ==
    \E i \in 1..Len(arg.m2), c \in MsgChars :
        /\ Len(arg.m2) < MaxMsgLen
        /\ SameRunClass(Ch(arg.m2, i), c)
        /\ SetSecond(SubSeq(arg.m2, 1, i) \o c \o From(arg.m2, i + 1))

\* a run of two characters or more made shorter by one
ShrinkRun ==
    \E i \in 1..Len(arg.m2) :
        /\ SameRunClass(Ch(arg.m2, i), Ch(arg.m2, i + 1))
        /\ SetSecond(SubSeq(arg.m2, 1, i - 1) \o From(arg.m2, i + 1))

First(a) == LogEntry("t1", a.service, "ERROR", a.m1)
Second(a) == LogEntry("t2", a.service, "WARN", a.m2)

DeriveKeys ==
    Return([k1 |-> DeriveIncidentKey(First(arg)),
            k2 |-> DeriveIncidentKey(Second(arg)),
            groups |-> GroupIncidents(<<First(arg), Second(arg)>>)])

KeyNext == ReplaceInRun \/ GrowRun \/ ShrinkRun \/ DeriveKeys

KeySpec == KeyInit /\ [][KeyNext]_vars

\* ---- parse_log_line, derive_incident_key, then the split of build_summary_prompt

SplitServices == {"db", "a::b", "a:", "ops::slow response", "x y", ":"}
SplitMessages == {"Timeout after 30s", "slow response 5ms", ":: odd", "Slow Response::7ms", ":x"}
SplitLevels == {"ERROR", "INFO"}

SplitLines ==
    { "t1 [" \o sv \o "] " \o lv \o ": " \o m :
        sv \in SplitServices, lv \in SplitLevels, m \in SplitMessages }
    \cup {"t1 [] ERROR: no service", "t1 db ERROR: no brackets"}

SplitInit ==
    /\ Idle
    /\ pc = "call"
    /\ arg \in SplitLines
    /\ res = Null

SplitBack ==
    LET e == ParseLogLine(arg)
    IN  IF e = None THEN Return([entry |-> None])
        ELSE LET key == DeriveIncidentKey(e)
                 parts == SplitKey(key)
             IN  Return([entry |-> e, key |-> key, service |-> parts.service,
                         pattern |-> parts.pattern,
                         runbook_context |-> RetrieveRunbook(parts.pattern)])

SplitSpec == SplitInit /\ [][SplitBack]_vars

\* ---- retrieve_runbook

MaxFrags == 2

PatternFrags ==
    { KNOWLEDGE_BASE[i].keyword : i \in 1..Len(KNOWLEDGE_BASE) }
    \cup {"database connection", " timeout", "Slow Response", " ", "x"}

RetrieveInit ==
    /\ Idle
    /\ pc = "call"
    /\ arg \in { Concat(fs, 1) : fs \in SeqsUpTo(PatternFrags, MaxFrags) }
    /\ res = Null

Retrieve == Return(RetrieveRunbook(arg))

RetrieveSpec == RetrieveInit /\ [][Retrieve]_vars

\* ---- parse_llm_output_to_json

MaxTextFrags == 3
MaxItems == 2

TextFrags ==
    { "Summary:", "severity:", "Root Cause:", "Action Items:", " P2", "P9 ",
      "[TAR[TARGET]GET]", "DB, down\n" }

\* the texts put together from fragments, in any order
FreeTexts ==
    { [kind |-> "free", text |-> Concat(fs, 1)] : fs \in SeqsUpTo(TextFrags, MaxTextFrags) }

SummaryValues == {"DB down", "Root Cause", " pad", "a,b", "see severity: P2", "[TARGET]"}
RootCauseValues == {"overload", "no Action Items", "a [TARGET]"}
SeverityDigits == {"1", "9"}
ItemValues == {"restart", "scale up", "b "}

\* "Summary: s Severity: Pd Root Cause: r Action Items: a1, ..., an"
FieldText(s, d, r, items, sep) ==
    "Summary: " \o s \o sep \o "Severity: P" \o d \o sep \o "Root Cause: " \o r \o sep
    \o "Action Items: "
    \o Concat([n \in 1..Len(items) |-> IF n = 1 THEN items[n] ELSE ", " \o items[n]], 1)

\* the texts that hold the four fields in order, on one line or on four
FieldTexts ==
    { [kind |-> "fields", s |-> s, d |-> d, r |-> r, items |-> items, sep |-> sep,
       text |-> FieldText(s, d, r, items, sep)] :
        s \in SummaryValues, d \in SeverityDigits, r \in RootCauseValues,
        items \in SeqsUpTo(ItemValues, MaxItems) \ {<<>>}, sep \in {" ", "\n"} }

ExtractInit ==
    /\ Idle
    /\ pc = "call"
    /\ arg \in FreeTexts \cup FieldTexts
    /\ res = Null

Extract == Return(ParseLlmOutputToJson(arg.text))

ExtractSpec == ExtractInit /\ [][Extract]_vars

------------------------------------------------------------------------------
(* The claims *)

\* whether the level of entry e is exactly ERROR or WARN
IsIncident(e) == e.level = "ERROR" \/ e.level = "WARN"

\* the entries of es, in order, that are incidents with key k
IncidentsOf(es, k) ==
    SelectSeq(es, LAMBDA e : IsIncident(e) /\ DeriveIncidentKey(e) = k)

\* whether main has called group_incidents
Grouped == pc = "loop" \/ (pc = "done" /\ entries # <<>>)

\* whether entry e is stored somewhere in dict d
Appears(d, e) == \E j \in 1..Len(d) : \E n \in 1..Len(d[j].val) : d[j].val[n] = e

\* C1: group_incidents keeps a record if and only if its level is exactly ERROR or
\* WARN; the records under a key are the kept records of the input with that key,
\* each once and in input order; no two items share a key and no key maps to an
\* empty sequence.
C1_GroupsPartitionIncidents ==
    Grouped =>
        /\ \A j \in 1..Len(groups) :
              /\ groups[j].val # <<>>
              /\ groups[j].val = IncidentsOf(entries, groups[j].key)
        /\ \A j, k \in 1..Len(groups) : groups[j].key = groups[k].key => j = k
        /\ \A i \in 1..Len(entries) : Appears(groups, entries[i]) <=> IsIncident(entries[i])

C1_Witness ==
    /\ Grouped
    /\ \E j \in 1..Len(groups) : Len(groups[j].val) >= 2
    /\ \E i \in 1..Len(entries) : ~IsIncident(entries[i])

\* the maximal digit runs and whitespace runs of a message each replaced by a
\* mark, every other character kept as it is
RECURSIVE ShapeFrom(_, _)
ShapeFrom(m, i) ==
    IF i > Len(m) THEN <<>>
    ELSE IF Ch(m, i) \in DigitChars
    THEN IF Ch(m, i - 1) \in DigitChars THEN ShapeFrom(m, i + 1)
         ELSE <<"<digits>">> \o ShapeFrom(m, i + 1)
    ELSE IF Ch(m, i) \in SpaceChars
    THEN IF Ch(m, i - 1) \in SpaceChars THEN ShapeFrom(m, i + 1)
         ELSE <<"<spaces>">> \o ShapeFrom(m, i + 1)
    ELSE <<Ch(m, i)>> \o ShapeFrom(m, i + 1)

Shape(m) == ShapeFrom(m, 1)

\* C2: two records of one service whose messages are the same but for the digits
\* of their digit runs and the whitespace of their whitespace runs get the same
\* key, and group_incidents puts both in one incident.
C2_SameKeyUpToDigitsAndSpaces ==
    (pc = "return" /\ Shape(arg.m1) = Shape(arg.m2)) =>
        /\ res.k1 = res.k2
        /\ Len(res.groups) = 1
        /\ res.groups[1].val = <<First(arg), Second(arg)>>

C2_Witness ==
    /\ pc = "return"
    /\ Shape(arg.m1) = Shape(arg.m2)
    /\ Len(arg.m1) # Len(arg.m2)
    /\ \E i \in 1..Len(arg.m1) : Ch(arg.m1, i) \in DigitChars
    /\ Ch(arg.m1, 1) \in SpaceChars
    /\ Ch(arg.m1, 1) # Ch(arg.m2, 1)

\* the keys of the incidents of es, each once, in the order of their first entry
\* (ks[i] is the key of es[i])
RECURSIVE FirstSeenFrom(_, _, _)
FirstSeenFrom(es, ks, i) ==
    IF i > Len(es) THEN <<>>
    ELSE IF /\ IsIncident(es[i])
            /\ \A j \in 1..(i - 1) : ~(IsIncident(es[j]) /\ ks[j] = ks[i])
    THEN <<ks[i]>> \o FirstSeenFrom(es, ks, i + 1)
    ELSE FirstSeenFrom(es, ks, i + 1)

FirstSeen(es) == FirstSeenFrom(es, [i \in 1..Len(es) |-> DeriveIncidentKey(es[i])], 1)

\* C3: the n-th report emitted is that of the n-th incident key in first-seen order:
\* its prompt is built from that key's records only, its report is extracted from
\* the text generated for that prompt, and a run that ends has emitted exactly one
\* report per incident key.
C3_ReportsInFirstSeenOrder ==
    \A keys \in {FirstSeen(entries)} :
        /\ Len(calls) = Len(emitted)
        /\ Len(emitted) <= Len(keys)
        /\ \A n \in 1..Len(emitted) :
              \A own \in {IncidentsOf(entries, keys[n])} :
                  /\ calls[n].prompt = BuildSummaryPrompt(keys[n], own)
                  /\ emitted[n].report = ParseLlmOutputToJson(Strip(calls[n].generated_text))
                  /\ emitted[n].i = n
                  /\ emitted[n].service = own[1].service
                  /\ emitted[n].count = Len(own)
        /\ (pc = "done" /\ entries # <<>>) => Len(emitted) = Len(keys)

C3_Witness ==
    /\ pc = "done"
    /\ Len(emitted) = 2
    /\ emitted[1].count = 2
    /\ emitted[1].service = "db"
    /\ emitted[2].service = "api"
    /\ entries[2].service = "api"
    /\ emitted[1].report # emitted[2].report

\* the indexes of the knowledge base entries whose keyword occurs in pattern p
Matching(p) == { i \in 1..Len(KNOWLEDGE_BASE) : Contains(p, KNOWLEDGE_BASE[i].keyword) }

\* C4: retrieve_runbook returns the runbook of the first keyword, in declared order,
\* that occurs in the pattern, and the fallback exactly when no keyword occurs.
C4_FirstDeclaredKeywordWins ==
    pc = "return" =>
        /\ Matching(arg) # {} =>
              res = KNOWLEDGE_BASE[CHOOSE i \in Matching(arg) :
                                      \A j \in Matching(arg) : i <= j].runbook
        /\ Matching(arg) = {} <=>
              res = "No specific runbook found. Follow general triage SOP."

C4_Witness ==
    /\ pc = "return"
    /\ Cardinality(Matching(arg)) = 2
    /\ Find(arg, "slow response", 1) = 1
    /\ res = KNOWLEDGE_BASE[1].runbook

\* C5: the severity of every report is one of P1, P2, P3, P4.
C5_SeverityIsP1ToP4 ==
    pc = "return" => res.severity \in {"P1", "P2", "P3", "P4"}

\* whether the label occurs in the text, letter case aside
HasLabel(text, label) == Contains(Lower(text), Lower(label))

\* C6: every field whose label does not occur in the text keeps its default, and
\* the empty text yields the all-default report.
C6_AbsentLabelKeepsDefault ==
    pc = "return" =>
        /\ ~HasLabel(arg.text, "Summary:") => res.summary = "N/A"
        /\ ~HasLabel(arg.text, "Severity:") => res.severity = "P3"
        /\ ~HasLabel(arg.text, "Root Cause:") => res.root_cause = "N/A"
        /\ ~HasLabel(arg.text, "Action Items:") => res.action_items = <<>>
        /\ arg.text = "" =>
              res = [summary |-> "N/A", severity |-> "P3", root_cause |-> "N/A",
                     action_items |-> <<>>]

C6_Witness ==
    /\ pc = "return"
    /\ HasLabel(arg.text, "Root Cause:")
    /\ ~HasLabel(arg.text, "Summary:")
    /\ ~HasLabel(arg.text, "Severity:")
    /\ Contains(arg.text, "P9")
    /\ res.severity = "P3"
    /\ res.summary = "N/A"

\* whether v is a field value as C7 takes it: not empty, trimmed, without label
\* text, without a comma and without the marker
Plain(v) ==
    /\ v # ""
    /\ Strip(v) = v
    /\ \A label \in {"Summary:", "Severity:", "Root Cause:", "Action Items:"} :
          ~HasLabel(v, label)
    /\ ~Contains(v, ",")
    /\ ~Contains(v, "[TARGET]")

\* whether the text of arg is of the form of C7
PlainFields ==
    /\ arg.kind = "fields"
    /\ Plain(arg.s)
    /\ Plain(arg.r)
    /\ \A n \in 1..Len(arg.items) : Plain(arg.items[n])

\* C7: the text "Summary: s Severity: Pd Root Cause: r Action Items: a1, ..., an",
\* its fields separated by spaces or by line breaks, yields s, Pd, r and a1..an.
C7_FieldsInOrderAreExtracted ==
    (pc = "return" /\ PlainFields) =>
        res = [summary |-> arg.s, severity |-> "P" \o arg.d, root_cause |-> arg.r,
               action_items |-> arg.items]

C7_Witness ==
    /\ pc = "return"
    /\ PlainFields
    /\ arg.sep = "\n"
    /\ arg.s = "Root Cause"
    /\ arg.r = "no Action Items"
    /\ arg.d = "9"
    /\ Len(arg.items) = 2
    /\ res.action_items = <<"scale up", "restart">>

\* C8: when the text holds an Action Items: label, every action item is not empty,
\* is trimmed, holds no comma and does not hold the marker [TARGET].
C8_ActionItemsAreClean ==
    (pc = "return" /\ HasLabel(arg.text, "Action Items:")) =>
        \A n \in 1..Len(res.action_items) :
            /\ res.action_items[n] # ""
            /\ Strip(res.action_items[n]) = res.action_items[n]
            /\ ~Contains(res.action_items[n], ",")
            /\ ~Contains(res.action_items[n], "[TARGET]")

\* the records of the lines of ls that match the line grammar, in order
MatchingRecords(ls) ==
    LET good == SelectSeq(ls, LAMBDA l : ParseLogLine(l) # None)
    IN  [n \in 1..Len(good) |-> ParseLogLine(good[n])]

\* C9: the run never crashes; load_logs returns the records of the matching lines,
\* in order; a file that is missing or cannot be read is reported, and the run
\* then ends with no record, no group, no generation call and no report.
C9_BadInputNeverAborts ==
    /\ pc # "crashed"
    /\ (fileState = "ok" /\ pc # "start") => entries = MatchingRecords(lines)
    /\ (fileState # "ok" /\ pc # "start") =>
          /\ pc = "done"
          /\ reported
          /\ entries = <<>>
          /\ groups = <<>>
          /\ calls = <<>>
          /\ emitted = <<>>

\* whether splitting the key of the parsed record gave back its service and its
\* normalized message, and the runbook context is that of the normalized message
SplitGivesBack ==
    /\ res.service = res.entry.service
    /\ res.pattern = NormalizeMessage(res.entry.message)
    /\ res.runbook_context = RetrieveRunbook(NormalizeMessage(res.entry.message))

\* C10 as stated: for every record parse_log_line produces, the split of its key
\* gives back its service and its normalized message.
C10_SplitGivesBackEveryRecord ==
    (pc = "return" /\ res.entry # None) => SplitGivesBack

\* whether the first "::" of service:: is the one appended to it
SeparatorFree(service) ==
    /\ ~Contains(service, "::")
    /\ Ch(service, Len(service)) # ":"

\* C10, amended: for every record parse_log_line produces whose service neither
\* holds "::" nor ends with ":", the split of its key gives back its service and
\* its normalized message.
C10_SplitGivesBackSeparatorFree ==
    (pc = "return" /\ res.entry # None /\ SeparatorFree(res.entry.service)) =>
        SplitGivesBack

C10_Witness ==
    /\ pc = "return"
    /\ res.entry # None
    /\ SeparatorFree(res.entry.service)
    /\ Contains(res.entry.message, "::")
    /\ res.runbook_context # NoRunbook

====
